---- MODULE Spec2Model ----
(***************************************************************************)
(* Facecastify: the Gemini service (credential store and batch request     *)
(* orchestrator).  JavaScript is single threaded: every action below is    *)
(* one run of synchronous code up to the next suspension point (await of   *)
(* a fetch, of Promise.all, of the setTimeout pause).                      *)
(*                                                                         *)
(* Representation of JavaScript values:                                    *)
(*   - null and undefined strings are the markers Null and Undefined;      *)
(*   - an image data URL is the tuple of its concatenated segments,        *)
(*     <<"data:", mimeType, ";base64,", data>>, and <<>> when the field    *)
(*     is undefined (a data URL is never the empty string);                *)
(*   - array indices are 0-based as in the source, At(seq, idx) reads one. *)
(***************************************************************************)
EXTENDS Integers, Sequences, FiniteSets, TLC

\* ------------------------------------------------------------------ bounds
MaxItems == 4
MaxLimit == 3
MaxParts == 2
MaxLabelLen == 3
MaxZipItems == 2
MaxBuilds == 3
MaxOps == 4
MaxBatches == 5
MaxTemplateLen == 3
MaxClicks == 2
MaxPackages == 2

\* ------------------------------------------------------- JavaScript values
Null == "<null>"
Undefined == "<undefined>"

Truthy(v) == v \notin {Null, Undefined, ""}

At(seq, idx) == IF idx + 1 \in DOMAIN seq THEN seq[idx + 1] ELSE Undefined

Min(a, b) == IF a < b THEN a ELSE b

\* ------------------------------------------------------------------ inputs
Pool == <<"happy", "sad", "angry", "surprised", "neutral", "smirk", "wink">>

ExpressionLists == {SubSeq(Pool, 1, n) : n \in 0..MaxItems}

Keys == {"", "key-A"}

\* error.message of the errors generateFacecast can throw
NoKeyMessage == "No Gemini API key available. Please provide an API key."
StatusMessage == "API request failed with status 500: Internal"
NoContentMessage == "No content found in Gemini response"
TransportMessage == "Failed to fetch"
JsonMessage == "Unexpected end of JSON input"

\* One part of candidates[0].content.parts: inlineData is the base64 data or
\* Undefined, text is a string or Undefined.
Parts == {[inlineData |-> "iVBORw0", text |-> Undefined],
          [inlineData |-> Undefined, text |-> "Here you go"],
          [inlineData |-> Undefined, text |-> ""],
          [inlineData |-> Undefined, text |-> Undefined]}

PartSeqs == UNION {[1..m -> Parts] : m \in 0..MaxParts}

\* What the remote endpoint can answer.  net: the fetch promise rejects, or
\* resolves with a body that is or is not JSON; ok: response.ok; shape: how
\* much of result.candidates[0].content.parts exists.
Responses ==
    {[net |-> "reject", ok |-> FALSE, shape |-> "noCandidates", parts |-> <<>>],
     [net |-> "json", ok |-> FALSE, shape |-> "noCandidates", parts |-> <<>>],
     [net |-> "badJson", ok |-> TRUE, shape |-> "noCandidates", parts |-> <<>>]}
    \cup {[net |-> "json", ok |-> TRUE, shape |-> s, parts |-> <<>>] :
             s \in {"noCandidates", "emptyCandidates", "noContent", "noParts"}}
    \cup {[net |-> "json", ok |-> TRUE, shape |-> "parts", parts |-> ps] :
             ps \in PartSeqs}

\* ------------------------------------------------------------------- state
VARIABLES
    envApiKey,        \* import.meta.env.VITE_GEMINI_API_KEY
    localStorage,     \* localStorage[API_KEY_STORAGE_KEY]
    apiKey,           \* GeminiService.apiKey
    apiKeyListeners,  \* GeminiService.apiKeyListeners
    listenerLog,      \* calls made to listeners: <<listener, hasApiKey>>
    expressions,      \* argument of generateFacecastBatch
    concurrencyLimit, \* argument of generateFacecastBatch
    pc,               \* where the run of generateFacecastBatch stands
    i,                \* loop index of generateFacecastBatch
    batch,            \* the promises of the batch being awaited
    results,          \* the results array
    calls,            \* history: per item index, the call generateFacecast made
    batchLog,         \* history: first index and size of each batch dispatched
    pauseLog,         \* history: number of batches dispatched before each pause
    keyAtRun,         \* history: apiKey when generateFacecastBatch was called
    outOfOrder,       \* history: some call settled before an earlier one of its batch
    label,            \* result.expression of the entry being named
    imageFilename,    \* imageFilename computed for label
    serviceFile,      \* which GlowficUploadService source the delivery runs
    zipResults,       \* argument results of createAndDownloadZip
    zip,              \* the JSZip instance: entry name -> bytes
    dpc,              \* where zipDownloadAndLaunch stands
    ticks,            \* runs of the waitForDownload interval callback
    userAgentOS,      \* what navigator.userAgent names: Win, Mac or other
    savedFiles,       \* downloads triggered: <<filename, archive>>
    launches,         \* values assigned to window.location.href
    alerts,           \* messages shown with alert()
    derror,           \* message of the error zipDownloadAndLaunch rejected with
    trace,            \* history: the delivery steps taken
    firstBuild,       \* history: input and archive of the first build
    builds,           \* history: number of archives built
    handles,          \* listeners whose de-registration handle was returned
    onNotify,         \* listener -> the listener whose handle its callback calls
    ops,              \* number of store operations done
    rounds,           \* history: the setApiKey calls
    adds,             \* history: the addApiKeyListener calls
    boots,            \* history: the operation numbers of the restarts
    unsubs,           \* history: the handle calls made outside callbacks
    customPrompt,     \* the prompt template given to generateFacecast
    promptExpression, \* the expression given to generateFacecast
    prompt,           \* the prompt text of the request
    referenceImage,   \* FacecastGenerator state: the reference image ('' when none)
    hasApiKey,        \* FacecastGenerator state: set by the key listener
    selectedExpressions, \* FacecastGenerator state
    isGenerating,     \* FacecastGenerator state
    uiResults,        \* FacecastGenerator state: results
    uiError,          \* FacecastGenerator state: error
    upc,              \* generateFacecasts: "idle" or "awaiting" the batch
    awaited,          \* the expressions handed to the awaited batch
    zpc,              \* zipAndLaunchGlowfic: "idle" or "awaiting" the delivery
    clicks,           \* history: number of generateFacecasts invocations
    lastOutcome,      \* history: how the last batch ended
    lastReturned,     \* history: the results the last returning batch returned
    packaged          \* history: the result lists handed to a download or archive

listenerVars == <<handles, onNotify, ops, rounds, adds, boots, unsubs>>
storeVars == <<envApiKey, localStorage, apiKey, apiKeyListeners, listenerLog,
               handles, onNotify, ops, rounds, adds, boots, unsubs>>
runVars == <<pc, i, batch, results, calls, batchLog, pauseLog>>
batchVars == <<expressions, concurrencyLimit, pc, i, batch, results, calls,
               batchLog, pauseLog, keyAtRun, outOfOrder>>
uiVars == <<referenceImage, hasApiKey, selectedExpressions, isGenerating, uiResults,
           uiError, upc, awaited, zpc, clicks, lastOutcome, lastReturned, packaged>>
nameVars == <<label, imageFilename, customPrompt, promptExpression, prompt>>
zipVars == <<serviceFile, zipResults, zip, dpc, ticks, userAgentOS, savedFiles,
             launches, alerts, derror, trace, firstBuild, builds>>
vars == <<envApiKey, localStorage, apiKey, apiKeyListeners, listenerLog,
          expressions, concurrencyLimit, pc, i, batch, results, calls,
          batchLog, pauseLog, keyAtRun, outOfOrder, label, imageFilename,
          serviceFile, zipResults, zip, dpc, ticks, userAgentOS, savedFiles,
          launches, alerts, derror, trace, firstBuild, builds,
          handles, onNotify, ops, rounds, adds, boots, unsubs,
          customPrompt, promptExpression, prompt,
          referenceImage, hasApiKey, selectedExpressions, isGenerating, uiResults,
          uiError, upc, awaited, zpc, clicks, lastOutcome, lastReturned, packaged>>

\* -------------------------------------------------------- credential store
\* bug variant: the stored key is tried first
LoadApiKeyStoredFirst(env, stored) ==
    IF Truthy(stored) THEN stored
    ELSE IF Truthy(env) THEN env
    ELSE Null

LoadApiKey(env, stored) ==
    IF Truthy(env) THEN env
    ELSE IF Truthy(stored) THEN stored
    ELSE Null

HasApiKey == Truthy(apiKey)

\* The listeners are functions; the callback of a listener may call the
\* de-registration handle of a listener (None: it calls none).
ListenerFns == {"f", "g"}
None == "<none>"

\* the handle: apiKeyListeners.filter(l => l !== listener)
Unsubscribed(listeners, fn) == SelectSeq(listeners, LAMBDA l : l # fn)

\* listener(hasKey) runs on st = [listeners, log]: the call is logged, with
\* whether the listener is registered at that moment, then its callback runs
Callback(st, fn, hasKey) ==
    LET invoked == [st EXCEPT !.log = Append(@,
                        [listener |-> fn, hasKey |-> hasKey, op |-> ops,
                         registered |-> \E x \in DOMAIN st.listeners :
                                            st.listeners[x] = fn])]
    IN IF onNotify[fn] \in handles
       THEN [invoked EXCEPT !.listeners = Unsubscribed(@, onNotify[fn])]
       ELSE invoked

\* bug variant: only the first listener of the array is called
RECURSIVE ForEachFirstOnly(_, _, _)
ForEachFirstOnly(st, arr, hasKey) ==
    IF arr = <<>> THEN st ELSE Callback(st, Head(arr), hasKey)

\* arr.forEach(listener => listener(hasKey)): arr is the array the round
\* started with, whatever the callbacks assign to apiKeyListeners
RECURSIVE ForEach(_, _, _)
ForEach(st, arr, hasKey) ==
    IF arr = <<>> THEN st
    ELSE ForEach(Callback(st, Head(arr), hasKey), Tail(arr), hasKey)

NotifyApiKeyListeners(hasKey) ==
    LET st == ForEach([listeners |-> apiKeyListeners, log |-> listenerLog],
                      apiKeyListeners, hasKey)
    IN /\ apiKeyListeners' = st.listeners
       /\ listenerLog' = st.log

\* bug variant: the key is not written to localStorage
SetApiKeyNoPersist(key) ==
    /\ apiKey' = key
    /\ NotifyApiKeyListeners(Truthy(key))
    /\ UNCHANGED <<envApiKey, localStorage>>

SetApiKey(key) ==
    /\ apiKey' = key
    /\ localStorage' = key
    /\ NotifyApiKeyListeners(Truthy(key))
    /\ UNCHANGED envApiKey

\* bug variant: the listener is not called on registration
InitialCallSkipped(st, fn, hasKey) == st

\* listener(this.hasApiKey()) in addApiKeyListener
InitialCall(st, fn, hasKey) == Callback(st, fn, hasKey)

AddApiKeyListener(fn) ==
    LET st == InitialCall([listeners |-> Append(apiKeyListeners, fn),
                           log |-> listenerLog], fn, HasApiKey)
    IN /\ apiKeyListeners' = st.listeners
       /\ listenerLog' = st.log
       /\ handles' = handles \cup {fn}

ListenersIdle ==
    /\ handles = {}
    /\ onNotify = [fn \in ListenerFns |-> None]
    /\ ops = 0
    /\ rounds = <<>>
    /\ adds = <<>>
    /\ boots = <<>>
    /\ unsubs = <<>>

\* a component registers fn
Subscribe(fn) ==
    /\ ops < MaxOps
    /\ AddApiKeyListener(fn)
    /\ adds' = Append(adds, [listener |-> fn, op |-> ops, hasKey |-> HasApiKey])
    /\ ops' = ops + 1
    /\ UNCHANGED <<envApiKey, localStorage, apiKey, onNotify, rounds, boots, unsubs>>
    /\ UNCHANGED <<batchVars, nameVars, zipVars, uiVars>>

\* a caller sets the key
SetKey(key) ==
    /\ ops < MaxOps
    /\ SetApiKey(key)
    /\ rounds' = Append(rounds, [listeners |-> apiKeyListeners, key |-> key, op |-> ops])
    /\ ops' = ops + 1
    /\ UNCHANGED <<handles, onNotify, adds, boots, unsubs>>
    /\ UNCHANGED <<batchVars, nameVars, zipVars, uiVars>>

\* the handle of fn is called outside of any callback
Unsubscribe(fn) ==
    /\ ops < MaxOps
    /\ fn \in handles
    /\ apiKeyListeners' = Unsubscribed(apiKeyListeners, fn)
    /\ unsubs' = Append(unsubs, [listener |-> fn, op |-> ops])
    /\ ops' = ops + 1
    /\ UNCHANGED <<envApiKey, localStorage, apiKey, listenerLog, handles, onNotify,
                   rounds, adds, boots>>
    /\ UNCHANGED <<batchVars, nameVars, zipVars, uiVars>>

\* the process ends and a new one starts: a new GeminiService is constructed
\* over the same localStorage and the same build-time configuration
Restart ==
    /\ ops < MaxOps
    /\ apiKey' = LoadApiKey(envApiKey, localStorage)
    /\ apiKeyListeners' = <<>>
    /\ handles' = {}
    /\ boots' = Append(boots, ops)
    /\ ops' = ops + 1
    /\ UNCHANGED <<envApiKey, localStorage, listenerLog, onNotify, rounds, adds, unsubs>>
    /\ UNCHANGED <<batchVars, nameVars, zipVars, uiVars>>

\* --------------------------------------------------------- generateFacecast
NoImage == <<>>

DataUrl(mimeType, data) == <<"data:", mimeType, ";base64,", data>>

EmptyGeminiResponse == [imageData |-> NoImage, textResponse |-> Undefined]

\* for (const part of candidate.content.parts) { if inlineData .. else if text .. }
RECURSIVE ReadParts(_, _)
ReadParts(parts, g) ==
    IF parts = <<>> THEN g
    ELSE LET part == Head(parts)
             g1 == IF part.inlineData # Undefined
                   THEN [g EXCEPT !.imageData = DataUrl("image/png", part.inlineData)]
                   ELSE IF Truthy(part.text)
                   THEN [g EXCEPT !.textResponse = part.text]
                   ELSE g
         IN ReadParts(Tail(parts), g1)

\* result.candidates && length > 0, candidate.content && candidate.content.parts
ParseResult(r) ==
    IF r.shape = "parts" THEN ReadParts(r.parts, EmptyGeminiResponse)
    ELSE EmptyGeminiResponse

\* bug variant: only the image counts as content
NoContentImageOnly(g) == g.imageData = NoImage

\* if (!geminiResponse.imageData && !geminiResponse.textResponse) throw
NoContent(g) == g.imageData = NoImage /\ ~Truthy(g.textResponse)

\* The state of a promise: pending, fulfilled with a value, rejected with an
\* error of the given message.
Pending == [state |-> "pending", response |-> EmptyGeminiResponse, message |-> Undefined]
Fulfilled(g) == [state |-> "fulfilled", response |-> g, message |-> Undefined]
Rejected(msg) == [state |-> "rejected", response |-> EmptyGeminiResponse, message |-> msg]

\* bug variant: only null counts as a missing key, the empty string passes
KeyMissingNullOnly(key) == key = Null

\* if (!this.apiKey) throw new Error(...)
KeyMissing(key) == ~Truthy(key)

\* generateFacecast up to its first await: rejects without a request when the
\* key is missing, otherwise issues the fetch and is pending.
StartFacecast(key) == IF KeyMissing(key) THEN Rejected(NoKeyMessage) ELSE Pending

\* generateFacecast after the fetch settled with r
FinishFacecast(r) ==
    IF r.net = "reject" THEN Rejected(TransportMessage)
    ELSE IF ~r.ok THEN Rejected(StatusMessage)
    ELSE IF r.net = "badJson" THEN Rejected(JsonMessage)
    ELSE LET g == ParseResult(r)
         IN IF NoContent(g) THEN Rejected(NoContentMessage) ELSE Fulfilled(g)

\* ---------------------------------------------------- generateFacecastBatch
\* .then(response => ({ expression, imageData: response.imageData }))
OnFulfilled(expression, g) ==
    [state |-> "fulfilled",
     value |-> [expression |-> expression, imageData |-> g.imageData, error |-> Undefined]]

\* bug variant: no .catch, the rejection reaches Promise.all
OnRejectedRethrow(expression, msg) ==
    [state |-> "rejected",
     value |-> [expression |-> expression, imageData |-> NoImage, error |-> msg]]

\* .catch(error => ({ expression, error: error.message }))
OnRejected(expression, msg) ==
    [state |-> "fulfilled",
     value |-> [expression |-> expression, imageData |-> NoImage, error |-> msg]]

\* generateFacecast(...).then(...).catch(...) for a promise in state p
Chain(expression, p) ==
    IF p.state = "pending"
    THEN [state |-> "pending",
          value |-> [expression |-> expression, imageData |-> NoImage, error |-> Undefined]]
    ELSE IF p.state = "fulfilled" THEN OnFulfilled(expression, p.response)
    ELSE OnRejected(expression, p.message)

\* bug variant: i <= expressions.length
LoopCondInclusive(idx) == idx <= Len(expressions)

\* for (let i = 0; i < expressions.length; ...)
LoopCond(idx) == idx < Len(expressions)

\* bug variant: the batch size is not cut to the items left
BatchSizeNoMin(idx) == concurrencyLimit

\* bug variant: one batch takes all the remaining items
BatchSizeRest(idx) == Len(expressions) - idx

\* Math.min(concurrencyLimit, expressions.length - i)
BatchSize(idx) == Min(concurrencyLimit, Len(expressions) - idx)

\* bug variant: i + concurrencyLimit <= expressions.length
PauseCondInclusive(idx) == idx + concurrencyLimit <= Len(expressions)

\* if (i + concurrencyLimit < expressions.length)
PauseCond(idx) == idx + concurrencyLimit < Len(expressions)

\* the inner loop: one promise per item idx .. idx + batchSize - 1
MakeBatch(idx, key) ==
    [x \in 1..BatchSize(idx) |->
        [idx |-> idx + x - 1] @@ Chain(At(expressions, idx + x - 1), StartFacecast(key))]

\* bug variant: the calls of all batches carry the key the run started with
MakeCallsKeyOfRunStart(idx, key) ==
    [c \in idx..(idx + BatchSize(idx) - 1) |->
        [fetched |-> StartFacecast(key).state = "pending",
         key |-> IF StartFacecast(key).state # "pending" THEN Undefined
                 ELSE IF pc = "idle" THEN key ELSE keyAtRun,
         resp |-> IF StartFacecast(key).state = "pending" THEN "inflight" ELSE "none"]]

\* the history entries of the calls of that batch
MakeCalls(idx, key) ==
    [c \in idx..(idx + BatchSize(idx) - 1) |->
        [fetched |-> StartFacecast(key).state = "pending",
         key |-> IF StartFacecast(key).state = "pending" THEN key ELSE Undefined,
         resp |-> IF StartFacecast(key).state = "pending" THEN "inflight" ELSE "none"]]

\* Promise.all: rejects as soon as one promise rejected, resolves with the
\* values in the order of the array when all are fulfilled
AnyRejected(b) == \E x \in DOMAIN b : b[x].state = "rejected"
\* bug variant: Promise.any, the first fulfilled promise resumes the loop
AnyFulfilled(b) == \E x \in DOMAIN b : b[x].state = "fulfilled"
AllFulfilled(b) == \A x \in DOMAIN b : b[x].state = "fulfilled"
PromiseAllValues(b) == [x \in DOMAIN b |-> b[x].value]

\* results.push(...batchResults)
Push(res, batchResults) == res \o batchResults

\* The run as a record, and the synchronous code from the loop head
\* (LoopFrom) and from `await Promise.all(batch)` (AwaitAll) up to the next
\* suspension or the end of the function.
Cur == [pc |-> pc, i |-> i, batch |-> batch, results |-> results,
        calls |-> calls, batchLog |-> batchLog, pauseLog |-> pauseLog]

RECURSIVE LoopFrom(_)
RECURSIVE AwaitAll(_)
LoopFrom(st) ==
    IF ~LoopCond(st.i) THEN [st EXCEPT !.pc = "done"]
    ELSE AwaitAll([st EXCEPT
             !.batch = MakeBatch(st.i, apiKey),
             !.calls = MakeCalls(st.i, apiKey) @@ @,
             !.batchLog = Append(@, <<st.i, BatchSize(st.i)>>)])

AwaitAll(st) ==
    IF AnyRejected(st.batch) THEN [st EXCEPT !.pc = "threw"]
    ELSE IF ~AllFulfilled(st.batch) THEN [st EXCEPT !.pc = "await"]
    ELSE LET st2 == [st EXCEPT !.results = Push(@, PromiseAllValues(st.batch)),
                               !.batch = <<>>]
         IN IF PauseCond(st.i)
            THEN [st2 EXCEPT !.pc = "pause", !.pauseLog = Append(@, Len(st.batchLog))]
            ELSE LoopFrom([st2 EXCEPT !.i = @ + concurrencyLimit])

Install(st) ==
    /\ pc' = st.pc
    /\ i' = st.i
    /\ batch' = st.batch
    /\ results' = st.results
    /\ calls' = st.calls
    /\ batchLog' = st.batchLog
    /\ pauseLog' = st.pauseLog

\* The declarative class of a response, kept as history of the call.
HasImagePart(r) ==
    r.shape = "parts" /\ \E x \in DOMAIN r.parts : r.parts[x].inlineData # Undefined
HasTextPart(r) ==
    r.shape = "parts" /\ \E x \in DOMAIN r.parts : Truthy(r.parts[x].text)
RespClass(r) ==
    IF r.net = "reject" THEN "reject"
    ELSE IF ~r.ok THEN "notOk"
    ELSE IF r.net = "badJson" THEN "badJson"
    ELSE IF HasImagePart(r) /\ HasTextPart(r) THEN "okBoth"
    ELSE IF HasImagePart(r) THEN "okImage"
    ELSE IF HasTextPart(r) THEN "okText"
    ELSE "okNeither"

\* bug variant: results are collected in completion order, the settled
\* promise's result goes to the first slot still free
SettleSlotCompletionOrder(b, x, p) ==
    LET f == CHOOSE y \in DOMAIN b :
                 b[y].state = "pending" /\ \A z \in 1..(y - 1) : b[z].state # "pending"
    IN [b EXCEPT ![f] = [idx |-> b[f].idx] @@ Chain(b[x].value.expression, p)]

\* the promise of slot x settles: its .then/.catch result is stored in slot x
SettleSlot(b, x, p) == [b EXCEPT ![x] = [idx |-> b[x].idx] @@ Chain(b[x].value.expression, p)]

\* ------------------------------------------- createAndDownloadZip: naming
\* A label (result.expression) and a file name are sequences of characters.
UpperCase == <<"A", "B", "C", "D", "E", "F", "G", "H", "I", "J", "K", "L", "M",
               "N", "O", "P", "Q", "R", "S", "T", "U", "V", "W", "X", "Y", "Z">>
LowerCase == <<"a", "b", "c", "d", "e", "f", "g", "h", "i", "j", "k", "l", "m",
               "n", "o", "p", "q", "r", "s", "t", "u", "v", "w", "x", "y", "z">>
Digits == {"0", "1", "2", "3", "4", "5", "6", "7", "8", "9"}
Letters == {UpperCase[k] : k \in 1..26} \cup {LowerCase[k] : k \in 1..26}
\* what \s matches, among the characters used here
Whitespace == {" ", "\t", "\n"}

\* the class [^a-zA-Z0-9\s-]
IsSpecialChar(c) == c \notin Letters \cup Digits \cup Whitespace \cup {"-"}

\* .replace(/[^a-zA-Z0-9\s-]/g, '')
RemoveSpecialChars(str) == SelectSeq(str, LAMBDA c : ~IsSpecialChar(c))

\* bug variant: /\s/g, every whitespace character becomes a hyphen
RECURSIVE ReplaceSpacesEach(_)
ReplaceSpacesEach(str) ==
    IF str = <<>> THEN <<>>
    ELSE IF Head(str) \in Whitespace THEN <<"-">> \o ReplaceSpacesEach(Tail(str))
    ELSE <<Head(str)>> \o ReplaceSpacesEach(Tail(str))

\* .replace(/\s+/g, '-'): each maximal run of whitespace becomes one hyphen
RECURSIVE ReplaceSpaces(_)
ReplaceSpaces(str) ==
    IF str = <<>> THEN <<>>
    ELSE IF Head(str) \in Whitespace
    THEN IF Len(str) > 1 /\ str[2] \in Whitespace
         THEN ReplaceSpaces(Tail(str))
         ELSE <<"-">> \o ReplaceSpaces(Tail(str))
    ELSE <<Head(str)>> \o ReplaceSpaces(Tail(str))

\* .toLowerCase()
LowerChar(c) ==
    IF \E k \in 1..26 : UpperCase[k] = c
    THEN LowerCase[CHOOSE k \in 1..26 : UpperCase[k] = c]
    ELSE c
ToLowerCase(str) == [x \in DOMAIN str |-> LowerChar(str[x])]

SafeExpression(expression) ==
    ToLowerCase(ReplaceSpaces(RemoveSpecialChars(expression)))

\* `facecast-${safeExpression}.png`
ImageFilename(expression) ==
    <<"f", "a", "c", "e", "c", "a", "s", "t", "-">> \o SafeExpression(expression)
        \o <<".", "p", "n", "g">>

\* the characters labels are drawn from, and the labels
LabelChars == {"a", "B", "7", " ", "\t", "-", "&", "!"}
SurprisedAndHappy == <<"S", "u", "r", "p", "r", "i", "s", "e", "d", " ", "&", " ",
                       "H", "a", "p", "p", "y", "!">>
Labels == UNION {[1..m -> LabelChars] : m \in 0..MaxLabelLen} \cup {SurprisedAndHappy}

NotNamed == <<"<not named>">>

\* ------------------------------------------------ generateFacecast: prompt
\* A text is a sequence of pieces: the placeholder, the patterns that
\* String.replace expands in a replacement string, and plain pieces.
Placeholder == "{expression}"
NoTemplate == <<Undefined>>
NotBuilt == <<"<not built>">>

\* the replacement string as String.replace inserts it: $& stands for the
\* matched text and $$ for a dollar sign
RECURSIVE ExpandReplacement(_)
ExpandReplacement(str) ==
    IF str = <<>> THEN <<>>
    ELSE (IF Head(str) = "$&" THEN <<Placeholder>>
          ELSE IF Head(str) = "$$" THEN <<"$">>
          ELSE <<Head(str)>>) \o ExpandReplacement(Tail(str))

\* customPrompt.replace('{expression}', expression): the first occurrence only
Replace(str, expression) ==
    IF \E k \in DOMAIN str : str[k] = Placeholder
    THEN LET k == CHOOSE k \in DOMAIN str :
                      /\ str[k] = Placeholder
                      /\ \A j \in 1..(k - 1) : str[j] # Placeholder
         IN SubSeq(str, 1, k - 1) \o ExpandReplacement(expression)
                \o SubSeq(str, k + 1, Len(str))
    ELSE str

\* the template literal of defaultPrompt
DefaultPrompt(expression) ==
    <<"Make the character in the reference image have the following expression: ">>
        \o expression
        \o <<". Focus on the face and upper shoulders only, but otherwise try to replicate the reference image (colors, clothes, theme, age, setting) as closely as possible.">>

\* customPrompt ? customPrompt.replace(...) : defaultPrompt
Prompt(template, expression) ==
    IF template # NoTemplate /\ template # <<>>
    THEN Replace(template, expression)
    ELSE DefaultPrompt(expression)

TemplatePieces == {Placeholder, "Draw ", " now"}
Templates == UNION {[1..m -> TemplatePieces] : m \in 0..MaxTemplateLen} \cup {NoTemplate}
PromptExpressions == {<<"happy">>, <<"sad", " ", "smile">>, <<"$&">>, <<"$$">>}

PromptIdle ==
    /\ customPrompt = NoTemplate
    /\ promptExpression = <<>>
    /\ prompt = NotBuilt

\* generateFacecast builds the prompt of its request
BuildPrompt ==
    /\ prompt = NotBuilt
    /\ prompt' = Prompt(customPrompt, promptExpression)
    /\ UNCHANGED <<label, imageFilename, customPrompt, promptExpression>>
    /\ UNCHANGED <<storeVars, batchVars, zipVars, uiVars>>

NameIdle == label = <<>> /\ imageFilename = NotNamed /\ PromptIdle

\* the naming step of createAndDownloadZip applied to label
NameEntry ==
    /\ imageFilename = NotNamed
    /\ imageFilename' = ImageFilename(label)
    /\ UNCHANGED <<label, customPrompt, promptExpression, prompt>>
    /\ UNCHANGED <<storeVars, batchVars, zipVars, uiVars>>

\* ------------------------------------------ createAndDownloadZip: archive
B64Alphabet == UpperCase \o LowerCase \o
               <<"0", "1", "2", "3", "4", "5", "6", "7", "8", "9", "+", "/">>
B64Value(c) == (CHOOSE k \in 1..64 : B64Alphabet[k] = c) - 1

\* atob: the char codes of the decoded base64 text (unpadded tail allowed)
RECURSIVE Atob(_)
Atob(b64) ==
    IF Len(b64) >= 4
    THEN LET v == B64Value(b64[1]) * 262144 + B64Value(b64[2]) * 4096
                  + B64Value(b64[3]) * 64 + B64Value(b64[4])
         IN <<v \div 65536, (v \div 256) % 256, v % 256>> \o Atob(SubSeq(b64, 5, Len(b64)))
    ELSE IF Len(b64) = 3
    THEN LET v == B64Value(b64[1]) * 4096 + B64Value(b64[2]) * 64 + B64Value(b64[3])
         IN <<v \div 1024, (v \div 4) % 256>>
    ELSE IF Len(b64) = 2
    THEN <<(B64Value(b64[1]) * 64 + B64Value(b64[2])) \div 16>>
    ELSE <<>>

\* imageData.split(',')[1]: the text after the comma that ends ";base64,"
Base64Data(imageData) == imageData[4]

\* new Uint8Array(binaryData.length) filled with binaryData.charCodeAt(i)
ImageBytes(imageData) ==
    LET binaryData == Atob(Base64Data(imageData))
    IN [x \in DOMAIN binaryData |-> binaryData[x] % 256]

\* results.filter(r => r.imageData)
SuccessfulResults(res) == SelectSeq(res, LAMBDA r : r.imageData # NoImage)

\* bug variant: the empty selection is not rejected
NothingToZipUnchecked(successful) == FALSE

\* if (successfulResults.length === 0) throw
NothingToZip(successful) == Len(successful) = 0

EmptyZip == [n \in {} |-> <<>>]

\* bug variant: one JSZip instance shared by all calls
SharedJSZip(old) == old

\* new JSZip()
NewJSZip(old) == EmptyZip

\* zip.file(imageFilename, bytes): sets or replaces the entry of that name
ZipFile(z, name, bytes) ==
    [n \in DOMAIN z \cup {name} |-> IF n = name THEN bytes ELSE z[n]]

\* for (const result of successfulResults) { ... zip.file(...) }
RECURSIVE AddEntries(_, _)
AddEntries(z, successful) ==
    IF successful = <<>> THEN z
    ELSE AddEntries(ZipFile(z, ImageFilename(Head(successful).expression),
                            ImageBytes(Head(successful).imageData)),
                    Tail(successful))

EmptyZipMessage == "No successful facecasts to zip"
GenerateMessage == "generateAsync failed"
SaveMessage == "createObjectURL failed"
FailedZipMessage == "Failed to create zip file"
NavigationMessage == "navigation failed"

\* the inputs: results with distinct labels, two of which name the same file
PngPayload == <<"i", "V", "B", "O">>
GifPayload == <<"R", "0", "l", "G">>
ZipLabels == {<<"h", "i">>, <<"H", "i", "!">>, <<"s", "a", "d">>}
ZipResultSet ==
    {[expression |-> l, imageData |-> DataUrl("image/png", d), error |-> Undefined] :
        l \in ZipLabels, d \in {PngPayload, GifPayload}}
    \cup {[expression |-> l, imageData |-> NoImage, error |-> e] :
        l \in ZipLabels, e \in {NoContentMessage, Undefined}}
ZipInputs ==
    {res \in UNION {[1..m -> ZipResultSet] : m \in 0..MaxZipItems} :
        \A x \in DOMAIN res, y \in DOMAIN res :
            res[x].expression = res[y].expression => x = y}

\* the lists a repeated build is given: every result successful
BuildInputs == {res \in ZipInputs : SuccessfulResults(res) = res}

\* the filename argument (FacecastGenerator passes facecasts-<timestamp>.glowficgirllichgallery)
ZipFilename == "facecasts.glowficgirllichgallery"

DOWNLOAD_TIMEOUT == 30000

\* getDefaultDownloadPath, with process.env.USERPROFILE and USER unset
GetDefaultDownloadPath(os, filename) ==
    IF os = "Win" THEN <<"C:\\Users\\User", "\\Downloads\\", filename>>
    ELSE IF os = "Mac" THEN <<"/Users/", "user", "/Downloads/", filename>>
    ELSE <<"/home/", "user", "/Downloads/", filename>>

\* `glowficgirlichgallery://upload?file=${encodeURIComponent(zipPath)}`
LaunchUrl(zipPath) ==
    <<"glowficgirlichgallery://upload?file=", [encodeURIComponent |-> zipPath]>>

\* the fallback message of launchGlowficApp
FallbackMessage(zipPath) ==
    <<"Could not auto-launch Glowfic Gallery Manager. Please run manually: ./glowfic_scraper.py --gui Then drag the downloaded zip file: ",
      zipPath>>

\* How createAndDownloadZip ended: it threw message, or returned path
\* (Undefined in the source that returns nothing).
Threw(msg) == [threw |-> TRUE, message |-> msg, path |-> <<>>]
Returned(zipPath) == [threw |-> FALSE, message |-> Undefined, path |-> zipPath]

\* bug variant: the catch of createAndDownloadZip swallows the error
CreateZipCatchSwallow(msg) == Returned(<<>>)

\* catch (error) { console.error(...); throw error; } of createAndDownloadZip
CreateZipCatch(msg) == Threw(msg)

\* bug variant: launchGlowficApp lets the navigation error out
LaunchCatchRethrow(navThrows) == navThrows

\* launchGlowficApp: true when its promise rejects; its catch shows the
\* fallback message instead
LaunchCatch(navThrows) == FALSE

ZipIdle ==
    /\ serviceFile = "GlowficUploadService.ts"
    /\ zipResults = <<>>
    /\ zip = EmptyZip
    /\ dpc = "Idle"
    /\ ticks = 0
    /\ userAgentOS = "Linux"
    /\ savedFiles = <<>>
    /\ launches = <<>>
    /\ alerts = <<>>
    /\ derror = Undefined
    /\ trace = <<"Idle">>
    /\ firstBuild = [input |-> <<>>, archive |-> EmptyZip]
    /\ builds = 0

\* the history of builds after archive z was built from res
Built(res, z) ==
    /\ builds' = builds + 1
    /\ firstBuild' = IF builds = 0 THEN [input |-> res, archive |-> z]
                     ELSE firstBuild

\* zipDownloadAndLaunch after createAndDownloadZip ended with out
AfterCreateZip(out, steps) ==
    IF out.threw
    THEN /\ dpc' = "Failed"
         /\ derror' = out.message
         /\ trace' = trace \o steps \o <<"Failed">>
    ELSE IF serviceFile = "GlowficUploadService.ts"
    THEN /\ dpc' = "Done"
         /\ derror' = Undefined
         /\ trace' = trace \o steps \o <<"Done">>
    ELSE IF out.path = <<>>
    THEN /\ dpc' = "Failed"
         /\ derror' = FailedZipMessage
         /\ trace' = trace \o steps \o <<"Failed">>
    ELSE /\ dpc' = "Settling"
         /\ derror' = Undefined
         /\ trace' = trace \o steps

\* zipDownloadAndLaunch is called: createAndDownloadZip up to generateAsync
Deliver ==
    /\ dpc = "Idle"
    /\ IF NothingToZip(SuccessfulResults(zipResults))
       THEN /\ AfterCreateZip(CreateZipCatch(EmptyZipMessage), <<>>)
            /\ UNCHANGED <<zip, firstBuild, builds>>
       ELSE /\ zip' = AddEntries(NewJSZip(zip), SuccessfulResults(zipResults))
            /\ Built(zipResults, zip')
            /\ dpc' = "Serializing"
            /\ trace' = Append(trace, "Serializing")
            /\ UNCHANGED derror
    /\ UNCHANGED <<serviceFile, zipResults, ticks, userAgentOS, savedFiles, launches, alerts>>
    /\ UNCHANGED <<storeVars, batchVars, nameVars, uiVars>>

\* zip.generateAsync settles; when it resolved the download is triggered
Serialized(outcome) ==
    /\ dpc = "Serializing"
    /\ IF outcome = "generateThrows"
       THEN /\ AfterCreateZip(CreateZipCatch(GenerateMessage), <<>>)
            /\ UNCHANGED savedFiles
       ELSE IF outcome = "saveThrows"
       THEN /\ AfterCreateZip(CreateZipCatch(SaveMessage), <<"Saving">>)
            /\ UNCHANGED savedFiles
       ELSE /\ savedFiles' = Append(savedFiles, <<ZipFilename, zip>>)
            /\ IF serviceFile = "GlowficUploadService.ts"
               THEN AfterCreateZip(Returned(<<>>), <<"Saving">>)
               ELSE /\ dpc' = "Saving"
                    /\ trace' = Append(trace, "Saving")
                    /\ UNCHANGED derror
    /\ UNCHANGED <<serviceFile, zipResults, zip, ticks, userAgentOS, launches, alerts,
                   firstBuild, builds>>
    /\ UNCHANGED <<storeVars, batchVars, nameVars, uiVars>>

\* the setInterval callback of waitForDownload runs
DownloadTick ==
    /\ dpc = "Saving"
    /\ ticks < 2
    /\ ticks' = ticks + 1
    /\ IF ticks' * 1000 > DOWNLOAD_TIMEOUT
       THEN AfterCreateZip(Returned(GetDefaultDownloadPath(userAgentOS, ZipFilename)), <<>>)
       ELSE UNCHANGED <<dpc, derror, trace>>
    /\ UNCHANGED <<serviceFile, zipResults, zip, userAgentOS, savedFiles, launches, alerts,
                   firstBuild, builds>>
    /\ UNCHANGED <<storeVars, batchVars, nameVars, uiVars>>

\* the setTimeout of waitForDownload fires: createAndDownloadZip returns the path
DownloadTimeout ==
    /\ dpc = "Saving"
    /\ AfterCreateZip(Returned(GetDefaultDownloadPath(userAgentOS, ZipFilename)), <<>>)
    /\ UNCHANGED <<serviceFile, zipResults, zip, ticks, userAgentOS, savedFiles, launches,
                   alerts, firstBuild, builds>>
    /\ UNCHANGED <<storeVars, batchVars, nameVars, uiVars>>

\* the settling delay elapsed: launchGlowficApp(zipPath)
Launch(navThrows) ==
    /\ dpc = "Settling"
    /\ launches' = Append(launches, LaunchUrl(GetDefaultDownloadPath(userAgentOS, ZipFilename)))
    /\ IF LaunchCatch(navThrows)
       THEN /\ dpc' = "Failed"
            /\ derror' = NavigationMessage
            /\ trace' = trace \o <<"Notifying", "Failed">>
            /\ UNCHANGED alerts
       ELSE /\ dpc' = "Done"
            /\ trace' = trace \o <<"Notifying", "Done">>
            /\ alerts' = IF navThrows
                         THEN Append(alerts, FallbackMessage(
                                  GetDefaultDownloadPath(userAgentOS, ZipFilename)))
                         ELSE alerts
            /\ UNCHANGED derror
    /\ UNCHANGED <<serviceFile, zipResults, zip, ticks, userAgentOS, savedFiles,
                   firstBuild, builds>>
    /\ UNCHANGED <<storeVars, batchVars, nameVars, uiVars>>

\* createAndDownloadZip is called with res: its code up to generateAsync
Build(res) ==
    /\ builds < MaxBuilds
    /\ zipResults' = res
    /\ IF NothingToZip(SuccessfulResults(res))
       THEN UNCHANGED <<zip, firstBuild, builds>>
       ELSE /\ zip' = AddEntries(NewJSZip(zip), SuccessfulResults(res))
            /\ Built(res, zip')
    /\ UNCHANGED <<serviceFile, dpc, ticks, userAgentOS, savedFiles, launches, alerts,
                   derror, trace>>
    /\ UNCHANGED <<storeVars, batchVars, nameVars, uiVars>>

\* ------------------------------------------------------ FacecastGenerator
NoImageMessage == "Please upload a reference image first"
NoKeyUiMessage == "Please provide a Gemini API key"
NoSelectionMessage == "Please select at least one expression"
BatchErrorMessage == "Error: generateFacecastBatch failed"
NoUploadMessage == "No successful facecasts to upload"
UploadErrorMessage == "Error preparing upload: zipDownloadAndLaunch failed"

ReferenceImages == {"", "data:image/png;base64,iVBO"}
UiSelections == {<<>>, <<"happy">>, <<"happy", "sad">>}

\* what generateFacecastBatch can return for the expressions: one result per
\* expression, in order, with an image or an error
UiBatchResults(exprs) ==
    {res \in [DOMAIN exprs ->
                 {[expression |-> e, imageData |-> d, error |-> m] :
                     e \in {exprs[x] : x \in DOMAIN exprs},
                     d \in {NoImage, DataUrl("image/png", PngPayload)},
                     m \in {Undefined, NoContentMessage}}] :
        \A x \in DOMAIN res :
            /\ res[x].expression = exprs[x]
            /\ (res[x].imageData = NoImage) = (res[x].error # Undefined)}

\* bug variant: the key is checked before the image
GuardMessageKeyFirst(img, key, exprs) ==
    IF ~key THEN NoKeyUiMessage
    ELSE IF img = "" THEN NoImageMessage
    ELSE IF Len(exprs) = 0 THEN NoSelectionMessage
    ELSE Null

\* the three early returns of generateFacecasts: the message set, or Null
GuardMessage(img, key, exprs) ==
    IF img = "" THEN NoImageMessage
    ELSE IF ~key THEN NoKeyUiMessage
    ELSE IF Len(exprs) = 0 THEN NoSelectionMessage
    ELSE Null

\* bug variant: the results of the earlier run stay while the new run runs
StartResultsKept(res) == res

\* setResults([]) before the batch starts
StartResults(res) == <<>>

\* bug variant: setIsGenerating(false) at the end of the try block
AfterBatchNoFinally(threw, res) ==
    IF threw
    THEN [isGenerating |-> TRUE, results |-> uiResults, error |-> BatchErrorMessage]
    ELSE [isGenerating |-> FALSE, results |-> res, error |-> uiError]

\* the code after `await generateFacecastBatch(...)`: try, catch and finally
AfterBatch(threw, res) ==
    IF threw
    THEN [isGenerating |-> FALSE, results |-> uiResults, error |-> BatchErrorMessage]
    ELSE [isGenerating |-> FALSE, results |-> res, error |-> uiError]

UiIdle ==
    /\ referenceImage = ""
    /\ hasApiKey = FALSE
    /\ selectedExpressions = <<>>
    /\ isGenerating = FALSE
    /\ uiResults = <<>>
    /\ uiError = Null
    /\ upc = "idle"
    /\ awaited = <<>>
    /\ zpc = "idle"
    /\ clicks = 0
    /\ lastOutcome = "none"
    /\ lastReturned = <<>>
    /\ packaged = <<>>

\* generateFacecasts up to its await; the Generate button is disabled while
\* isGenerating
GenerateFacecasts ==
    /\ ~isGenerating
    /\ clicks < MaxClicks
    /\ clicks' = clicks + 1
    /\ IF GuardMessage(referenceImage, hasApiKey, selectedExpressions) # Null
       THEN /\ uiError' = GuardMessage(referenceImage, hasApiKey, selectedExpressions)
            /\ UNCHANGED <<isGenerating, uiResults, upc, awaited>>
       ELSE /\ isGenerating' = TRUE
            /\ uiError' = Null
            /\ uiResults' = StartResults(uiResults)
            /\ upc' = "awaiting"
            /\ awaited' = selectedExpressions
    /\ UNCHANGED <<referenceImage, hasApiKey, selectedExpressions, zpc, lastOutcome,
                   lastReturned, packaged>>
    /\ UNCHANGED <<storeVars, batchVars, nameVars, zipVars>>

\* generateFacecastBatch returns
BatchReturns ==
    \E res \in UiBatchResults(awaited) :
    /\ upc = "awaiting"
    /\ isGenerating' = AfterBatch(FALSE, res).isGenerating
    /\ uiResults' = AfterBatch(FALSE, res).results
    /\ uiError' = AfterBatch(FALSE, res).error
    /\ upc' = "idle"
    /\ awaited' = <<>>
    /\ lastOutcome' = "returned"
    /\ lastReturned' = res
    /\ UNCHANGED <<referenceImage, hasApiKey, selectedExpressions, zpc, clicks, packaged>>
    /\ UNCHANGED <<storeVars, batchVars, nameVars, zipVars>>

\* generateFacecastBatch throws
BatchThrows ==
    /\ upc = "awaiting"
    /\ isGenerating' = AfterBatch(TRUE, <<>>).isGenerating
    /\ uiResults' = AfterBatch(TRUE, <<>>).results
    /\ uiError' = AfterBatch(TRUE, <<>>).error
    /\ upc' = "idle"
    /\ awaited' = <<>>
    /\ lastOutcome' = "threw"
    /\ UNCHANGED <<referenceImage, hasApiKey, selectedExpressions, zpc, clicks,
                   lastReturned, packaged>>
    /\ UNCHANGED <<storeVars, batchVars, nameVars, zipVars>>

\* the history entry of a packaging of the successful results
Package(kind) ==
    [kind |-> kind, results |-> SuccessfulResults(uiResults),
     generating |-> isGenerating, completed |-> lastReturned]

\* downloadAll
DownloadAll ==
    /\ Len(packaged) < MaxPackages
    /\ packaged' = IF Len(SuccessfulResults(uiResults)) = 0 THEN packaged
                   ELSE Append(packaged, Package("download"))
    /\ UNCHANGED <<referenceImage, hasApiKey, selectedExpressions, isGenerating,
                   uiResults, uiError, upc, awaited, zpc, clicks, lastOutcome, lastReturned>>
    /\ UNCHANGED <<storeVars, batchVars, nameVars, zipVars>>

\* zipAndLaunchGlowfic up to its await
ZipAndLaunchGlowfic ==
    /\ Len(packaged) < MaxPackages
    /\ zpc = "idle"
    /\ IF Len(SuccessfulResults(uiResults)) = 0
       THEN /\ uiError' = NoUploadMessage
            /\ UNCHANGED <<zpc, packaged>>
       ELSE /\ uiError' = Null
            /\ zpc' = "awaiting"
            /\ packaged' = Append(packaged, Package("zip"))
    /\ UNCHANGED <<referenceImage, hasApiKey, selectedExpressions, isGenerating,
                   uiResults, upc, awaited, clicks, lastOutcome, lastReturned>>
    /\ UNCHANGED <<storeVars, batchVars, nameVars, zipVars>>

\* zipDownloadAndLaunch settles
ZipSettled(threw) ==
    /\ zpc = "awaiting"
    /\ zpc' = "idle"
    /\ uiError' = IF threw THEN UploadErrorMessage ELSE uiError
    /\ UNCHANGED <<referenceImage, hasApiKey, selectedExpressions, isGenerating,
                   uiResults, upc, awaited, clicks, lastOutcome, lastReturned, packaged>>
    /\ UNCHANGED <<storeVars, batchVars, nameVars, zipVars>>

\* clearAllExpressions; its button is disabled while isGenerating
ClearAllExpressions ==
    /\ ~isGenerating
    /\ selectedExpressions # <<>>
    /\ selectedExpressions' = <<>>
    /\ UNCHANGED <<referenceImage, hasApiKey, isGenerating, uiResults, uiError,
                   upc, awaited, zpc, clicks, lastOutcome, lastReturned, packaged>>
    /\ UNCHANGED <<storeVars, batchVars, nameVars, zipVars>>

\* the key listener of the component: setHasApiKey
KeyListener(hasKey) ==
    /\ hasKey # hasApiKey
    /\ hasApiKey' = hasKey
    /\ UNCHANGED <<referenceImage, selectedExpressions, isGenerating, uiResults, uiError,
                   upc, awaited, zpc, clicks, lastOutcome, lastReturned, packaged>>
    /\ UNCHANGED <<storeVars, batchVars, nameVars, zipVars>>

\* ----------------------------------------------------------------- actions
\* generateFacecastBatch is called: the code up to the first await
Run ==
    /\ pc = "idle"
    /\ keyAtRun' = apiKey
    /\ Install(LoopFrom([Cur EXCEPT !.i = 0, !.results = <<>>]))
    /\ UNCHANGED <<storeVars, expressions, concurrencyLimit, outOfOrder>>
    /\ UNCHANGED <<nameVars, zipVars, uiVars>>

\* the fetch of slot x settles with response r; when it was the last of the
\* batch the code after `await Promise.all(batch)` runs
Settle(x, r) ==
    /\ pc = "await"
    /\ x \in DOMAIN batch
    /\ batch[x].state = "pending"
    /\ outOfOrder' = (outOfOrder \/ \E y \in 1..(x - 1) : batch[y].state = "pending")
    /\ Install(AwaitAll([Cur EXCEPT
           !.batch = SettleSlot(batch, x, FinishFacecast(r)),
           !.calls = [@ EXCEPT ![batch[x].idx].resp = RespClass(r)]]))
    /\ UNCHANGED <<storeVars, expressions, concurrencyLimit, keyAtRun>>
    /\ UNCHANGED <<nameVars, zipVars, uiVars>>

\* the setTimeout of the pause fires: i += concurrencyLimit, next iteration
PauseElapsed ==
    /\ pc = "pause"
    /\ Len(batchLog) < MaxBatches
    /\ Install(LoopFrom([Cur EXCEPT !.i = @ + concurrencyLimit]))
    /\ UNCHANGED <<storeVars, expressions, concurrencyLimit, keyAtRun, outOfOrder>>
    /\ UNCHANGED <<nameVars, zipVars, uiVars>>

\* a caller of the service sets another key (handleApiKeySubmit), at any moment
ChangeKey ==
    /\ \E key \in Keys : key # apiKey /\ SetApiKey(key)
    /\ UNCHANGED listenerVars
    /\ UNCHANGED <<expressions, concurrencyLimit, runVars, keyAtRun, outOfOrder>>
    /\ UNCHANGED <<nameVars, zipVars, uiVars>>

Init ==
    /\ envApiKey = Undefined
    /\ localStorage \in {Null, "key-A"}
    /\ apiKey = LoadApiKey(envApiKey, localStorage)
    /\ apiKeyListeners = <<>>
    /\ listenerLog = <<>>
    /\ expressions \in ExpressionLists
    /\ concurrencyLimit \in 1..MaxLimit
    /\ pc = "idle"
    /\ i = 0
    /\ batch = <<>>
    /\ results = <<>>
    /\ calls = <<>>
    /\ batchLog = <<>>
    /\ pauseLog = <<>>
    /\ keyAtRun = Null
    /\ outOfOrder = FALSE
    /\ ListenersIdle
    /\ NameIdle
    /\ ZipIdle
    /\ UiIdle

Next ==
    \/ Run
    \/ \E x \in 1..MaxLimit, r \in Responses : Settle(x, r)
    \/ PauseElapsed
    \/ ChangeKey

Spec == Init /\ [][Next]_vars

\* the credential store and the batch run at rest
StoreIdle ==
    /\ envApiKey = Undefined
    /\ localStorage = Null
    /\ apiKey = Null
    /\ apiKeyListeners = <<>>
    /\ listenerLog = <<>>
    /\ ListenersIdle
BatchIdle ==
    /\ expressions = <<>>
    /\ concurrencyLimit = 1
    /\ pc = "idle"
    /\ i = 0
    /\ batch = <<>>
    /\ results = <<>>
    /\ calls = <<>>
    /\ batchLog = <<>>
    /\ pauseLog = <<>>
    /\ keyAtRun = Null
    /\ outOfOrder = FALSE

\* naming one archive entry
InitName ==
    /\ StoreIdle
    /\ BatchIdle
    /\ ZipIdle
    /\ UiIdle
    /\ label \in Labels
    /\ imageFilename = NotNamed
    /\ PromptIdle
NextName == NameEntry
SpecName == InitName /\ [][NextName]_vars

\* one delivery of a result list
InitZip ==
    /\ StoreIdle
    /\ BatchIdle
    /\ NameIdle
    /\ UiIdle
    /\ serviceFile \in {"GlowficUploadService.ts", "part_002"}
    /\ zipResults \in ZipInputs
    /\ zip = EmptyZip
    /\ dpc = "Idle"
    /\ ticks = 0
    /\ userAgentOS \in {"Win", "Mac", "Linux"}
    /\ savedFiles = <<>>
    /\ launches = <<>>
    /\ alerts = <<>>
    /\ derror = Undefined
    /\ trace = <<"Idle">>
    /\ firstBuild = [input |-> <<>>, archive |-> EmptyZip]
    /\ builds = 0
NextZip ==
    \/ Deliver
    \/ \E outcome \in {"ok", "generateThrows", "saveThrows"} : Serialized(outcome)
    \/ DownloadTick
    \/ DownloadTimeout
    \/ \E navThrows \in BOOLEAN : Launch(navThrows)
SpecZip == InitZip /\ [][NextZip]_vars

\* archives built one after the other
InitBuild ==
    /\ StoreIdle
    /\ BatchIdle
    /\ NameIdle
    /\ ZipIdle
    /\ UiIdle
NextBuild == \E res \in BuildInputs : Build(res)
SpecBuild == InitBuild /\ [][NextBuild]_vars

\* the credential store and its listeners
InitStore ==
    /\ envApiKey = Undefined
    /\ localStorage \in {Null, "key-A"}
    /\ apiKey = LoadApiKey(envApiKey, localStorage)
    /\ apiKeyListeners = <<>>
    /\ listenerLog = <<>>
    /\ handles = {}
    /\ onNotify \in [ListenerFns -> ListenerFns \cup {None}]
    /\ ops = 0
    /\ rounds = <<>>
    /\ adds = <<>>
    /\ boots = <<>>
    /\ unsubs = <<>>
    /\ BatchIdle
    /\ NameIdle
    /\ ZipIdle
    /\ UiIdle
NextStore ==
    \/ \E fn \in ListenerFns : Subscribe(fn)
    \/ \E key \in Keys : SetKey(key)
    \/ \E fn \in ListenerFns : Unsubscribe(fn)
SpecStore == InitStore /\ [][NextStore]_vars

\* a run with any integer as concurrencyLimit
LimitValues == {-1, 0, 1}
InitLimit ==
    /\ envApiKey = Undefined
    /\ localStorage \in {Null, "key-A"}
    /\ apiKey = LoadApiKey(envApiKey, localStorage)
    /\ apiKeyListeners = <<>>
    /\ listenerLog = <<>>
    /\ ListenersIdle
    /\ expressions \in ExpressionLists
    /\ concurrencyLimit \in LimitValues
    /\ pc = "idle"
    /\ i = 0
    /\ batch = <<>>
    /\ results = <<>>
    /\ calls = <<>>
    /\ batchLog = <<>>
    /\ pauseLog = <<>>
    /\ keyAtRun = Null
    /\ outOfOrder = FALSE
    /\ NameIdle
    /\ ZipIdle
    /\ UiIdle
NextLimit ==
    \/ Run
    \/ \E x \in 1..MaxLimit, r \in Responses : Settle(x, r)
    \/ PauseElapsed
SpecLimit == InitLimit /\ [][NextLimit]_vars

\* the prompt of one request
InitPrompt ==
    /\ StoreIdle
    /\ BatchIdle
    /\ ZipIdle
    /\ UiIdle
    /\ label = <<>>
    /\ imageFilename = NotNamed
    /\ customPrompt \in Templates
    /\ promptExpression \in PromptExpressions
    /\ prompt = NotBuilt
NextPrompt == BuildPrompt
SpecPrompt == InitPrompt /\ [][NextPrompt]_vars

\* the component
InitUi ==
    /\ StoreIdle
    /\ BatchIdle
    /\ NameIdle
    /\ ZipIdle
    /\ referenceImage \in ReferenceImages
    /\ hasApiKey \in BOOLEAN
    /\ selectedExpressions \in UiSelections
    /\ isGenerating = FALSE
    /\ uiResults = <<>>
    /\ uiError = Null
    /\ upc = "idle"
    /\ awaited = <<>>
    /\ zpc = "idle"
    /\ clicks = 0
    /\ lastOutcome = "none"
    /\ lastReturned = <<>>
    /\ packaged = <<>>
NextUi ==
    \/ GenerateFacecasts
    \/ BatchReturns
    \/ BatchThrows
    \/ DownloadAll
    \/ ZipAndLaunchGlowfic
    \/ \E threw \in BOOLEAN : ZipSettled(threw)
    \/ ClearAllExpressions
    \/ \E hasKey \in BOOLEAN : KeyListener(hasKey)
SpecUi == InitUi /\ [][NextUi]_vars
\* the awaited batch settles, one way or the other
SpecUiLive ==
    SpecUi /\ WF_vars(BatchReturns \/ BatchThrows)

\* the credential over process lifetimes
EnvKeys == {Undefined, "", "key-E"}
StoredKeys == {Null, "", "key-A", "key-B"}
InitRestart ==
    /\ envApiKey \in EnvKeys
    /\ localStorage \in StoredKeys
    /\ apiKey = LoadApiKey(envApiKey, localStorage)
    /\ apiKeyListeners = <<>>
    /\ listenerLog = <<>>
    /\ ListenersIdle
    /\ BatchIdle
    /\ NameIdle
    /\ ZipIdle
    /\ UiIdle
NextRestart ==
    \/ \E key \in Keys : SetKey(key)
    \/ Restart
SpecRestart == InitRestart /\ [][NextRestart]_vars

\* ------------------------------------------------------------- properties
NumItems == Len(expressions)

Ceil(n, k) == (n + k - 1) \div k

HasImage(res) == res.imageData # NoImage
HasError(res) == res.error # Undefined

\* the index range of the b-th batch dispatched (b from 1)
BatchRange(b) == batchLog[b][1] .. (batchLog[b][1] + batchLog[b][2] - 1)
BatchOf(c) == CHOOSE b \in 1..Len(batchLog) : c \in BatchRange(b)

FailureClasses == {"reject", "notOk", "badJson", "okNeither"}

\* C1: the results are in submission order, one per item at the item's own
\* index, whatever the order in which the calls settle; the run returns.
C1_SubmissionOrder ==
    /\ pc # "threw"
    /\ Len(results) <= NumItems
    /\ \A x \in 1..Len(results) : results[x].expression = expressions[x]
    /\ pc = "done" => Len(results) = NumItems

C1_Witness ==
    /\ pc = "done"
    /\ NumItems >= 3
    /\ outOfOrder
    /\ \A x \in 1..NumItems : results[x].expression = expressions[x]

\* C2: no call of a later batch is dispatched while a call of an earlier
\* batch is still in flight.
C2_BatchesSequential ==
    \A a \in DOMAIN calls, c \in DOMAIN calls :
        BatchOf(a) < BatchOf(c) => calls[a].resp # "inflight"

C2_Witness ==
    /\ Len(batchLog) >= 2
    /\ outOfOrder
    /\ \E c \in DOMAIN calls : calls[c].resp = "inflight"

\* C3: a failed call gives a result with error and no imageData, the run
\* never throws, and every result is determined by its own item and its own
\* call alone.
ExpectedError(class) ==
    CASE class = "none" -> NoKeyMessage
      [] class = "reject" -> TransportMessage
      [] class = "notOk" -> StatusMessage
      [] class = "badJson" -> JsonMessage
      [] class = "okNeither" -> NoContentMessage
      [] OTHER -> Undefined

C3_FailureIsolated ==
    /\ pc # "threw"
    /\ \A x \in 1..Len(results) :
          /\ (x - 1) \in DOMAIN calls
          /\ results[x].expression = At(expressions, x - 1)
          /\ results[x].error = ExpectedError(calls[x - 1].resp)
          /\ HasImage(results[x]) <=> calls[x - 1].resp \in {"okImage", "okBoth"}
          /\ calls[x - 1].resp \in FailureClasses =>
                HasError(results[x]) /\ ~HasImage(results[x])

C3_Witness ==
    /\ pc = "done"
    /\ \E x \in 1..NumItems, y \in 1..NumItems :
          /\ x + concurrencyLimit <= y
          /\ calls[x - 1].resp \in FailureClasses
          /\ HasError(results[x])
          /\ calls[y - 1].resp = "okImage"
          /\ HasImage(results[y])

\* C4: every returned result has exactly one of imageData and error set.
C4_ExactlyOneOfImageAndError ==
    pc = "done" => \A x \in 1..Len(results) : HasImage(results[x]) # HasError(results[x])

\* C5: called without a credential and with items, the run rejects before
\* any batch and any pause.
C5_MissingCredentialRejects ==
    (pc # "idle" /\ ~Truthy(keyAtRun) /\ NumItems > 0) =>
        (pc = "threw" /\ batchLog = <<>> /\ pauseLog = <<>>)

\* C6: every fetch issued was issued with a credential configured.
C6_NoFetchWithoutKey ==
    \A c \in DOMAIN calls : calls[c].fetched => Truthy(calls[c].key)

C6_Witness ==
    /\ pc = "done"
    /\ ~Truthy(keyAtRun)
    /\ NumItems >= 2
    /\ \E c \in DOMAIN calls : ~calls[c].fetched
    /\ \E c \in DOMAIN calls : calls[c].fetched

\* C7: batch b (0-based) is items b*k .. min(n, (b+1)*k) - 1, and a finished
\* run has processed ceil(n/k) batches.
C7_Chunking ==
    /\ \A b \in 1..Len(batchLog) :
          BatchRange(b) = ((b - 1) * concurrencyLimit) ..
                          (Min(NumItems, b * concurrencyLimit) - 1)
    /\ pc = "await" => \A x \in DOMAIN batch : batch[x].idx = i + x - 1
    /\ pc = "await" => DOMAIN batch = 1..Cardinality(BatchRange(Len(batchLog)))
    /\ pc = "done" => Len(batchLog) = Ceil(NumItems, concurrencyLimit)

C7_Witness ==
    /\ pc = "done"
    /\ Len(batchLog) = 2
    /\ batchLog[1][2] = concurrencyLimit
    /\ batchLog[2][2] < concurrencyLimit

\* C8: one pause after each batch but the last, taken once the batch has
\* settled and before the next batch is dispatched.
C8_PausesBetweenBatches ==
    /\ \A p \in 1..Len(pauseLog) : pauseLog[p] = p
    /\ pc = "pause" =>
          /\ Len(pauseLog) = Len(batchLog)
          /\ Len(batchLog) < Ceil(NumItems, concurrencyLimit)
          /\ \A c \in DOMAIN calls : calls[c].resp # "inflight"
          /\ Len(results) = Len(batchLog) * concurrencyLimit
    /\ pc = "await" => Len(pauseLog) = Len(batchLog) - 1
    /\ (pc = "done" /\ NumItems > 0) =>
          Len(pauseLog) = Ceil(NumItems, concurrencyLimit) - 1

C8_Witness ==
    /\ pc = "done"
    /\ Len(batchLog) = 3
    /\ pauseLog = <<1, 2>>

\* C9: with no items the run returns the empty list at once: no batch, no
\* call, no pause.
C9_EmptyItems ==
    (NumItems = 0 /\ pc # "idle") =>
        /\ pc = "done"
        /\ results = <<>>
        /\ DOMAIN calls = {}
        /\ batchLog = <<>>
        /\ pauseLog = <<>>

C9_Witness == pc = "done" /\ NumItems = 0 /\ results = <<>>

\* C10: an OK response with neither an image part nor a text part is the
\* item's 'no content' error; one with an image part, a text part or both
\* is not an error.
C10_NoContentIsFailure ==
    \A x \in 1..Len(results) :
        /\ calls[x - 1].resp = "okNeither" => results[x].error = NoContentMessage
        /\ calls[x - 1].resp \in {"okImage", "okText", "okBoth"} => ~HasError(results[x])

C10_Witness ==
    /\ pc = "done"
    /\ \E x \in 1..NumItems, y \in 1..NumItems :
          /\ calls[x - 1].resp = "okNeither"
          /\ results[x].error = NoContentMessage
          /\ calls[y - 1].resp = "okText"
          /\ ~HasError(results[y])

\* ------------------------------------------------- entry names (SpecName)
\* the normalisation N as a specification: characters outside the kept class
\* are dropped, a whitespace character that follows another is dropped, every
\* other whitespace character is a hyphen, letters are lower-cased
Normalised(str, kept) ==
    LET keptStr == SelectSeq(str, LAMBDA c : c \in kept)
        starts == SelectSeq([k \in 1..Len(keptStr) |-> k],
                            LAMBDA k : ~(/\ keptStr[k] \in Whitespace
                                         /\ k > 1
                                         /\ keptStr[k - 1] \in Whitespace))
    IN [j \in 1..Len(starts) |->
            IF keptStr[starts[j]] \in Whitespace THEN "-"
            ELSE LowerChar(keptStr[starts[j]])]
EntryName(str, kept) ==
    <<"f", "a", "c", "e", "c", "a", "s", "t", "-">> \o Normalised(str, kept)
        \o <<".", "p", "n", "g">>
Named == imageFilename # NotNamed

HasImageData(r) == r.imageData # NoImage
SuccessIndexes == {x \in DOMAIN zipResults : HasImageData(zipResults[x])}
Started == dpc # "Idle"
DownloadPath == GetDefaultDownloadPath(userAgentOS, ZipFilename)
InTrace(step) == \E x \in DOMAIN trace : trace[x] = step

\* C11: the archive holds entries of results with imageData only, and a list
\* without any such result makes the call fail with 'No successful facecasts
\* to zip': no archive is built (not even an empty one) and nothing is saved.
C11_EmptySelectionRejected ==
    Started =>
        /\ DOMAIN zip = {ImageFilename(zipResults[x].expression) : x \in SuccessIndexes}
        /\ SuccessIndexes = {} =>
               /\ dpc = "Failed"
               /\ derror = EmptyZipMessage
               /\ builds = 0
               /\ savedFiles = <<>>
               /\ ~InTrace("Serializing")
        /\ SuccessIndexes # {} => builds = 1
C11_Witness ==
    /\ dpc = "Failed"
    /\ derror = EmptyZipMessage
    /\ Len(zipResults) = 2
    /\ SuccessIndexes = {}

\* C12: for a list with distinct labels the archive has exactly one entry per
\* successful result (two labels never share an entry).
C12_OneEntryPerSuccess ==
    Started => Cardinality(DOMAIN zip) = Cardinality(SuccessIndexes)

\* C15: a delivery passes Idle, Serializing, Saving, Notifying, Done in that
\* order (a failure may end it earlier), and a delivery that is Done has
\* attempted the notification after its save.
DeliveryOrder == <<"Idle", "Serializing", "Saving", "Notifying", "Done">>
C15_DeliveryOrder ==
    /\ \E n \in 1..5 :
          \/ trace = SubSeq(DeliveryOrder, 1, n)
          \/ trace = Append(SubSeq(DeliveryOrder, 1, n), "Failed")
    /\ launches # <<>> => Len(savedFiles) = 1 /\ InTrace("Saving")
    /\ dpc = "Done" => Len(savedFiles) = 1 /\ Len(launches) = 1

\* C16 as stated: a notification failure never fails the delivery, and only
\* errors of serialization or save reach the caller.
C16_OnlySerializeOrSaveErrors ==
    /\ InTrace("Notifying") => dpc = "Done" /\ derror = Undefined
    /\ derror \in {Undefined, GenerateMessage, SaveMessage}

\* C16 amended: a notification failure never fails the delivery: the fallback
\* message with the saved path is shown and the delivery is Done; the errors
\* that reach the caller are those of building the archive (no successful
\* result), of serialization and of save.
C16_NotificationFailureContained ==
    /\ InTrace("Notifying") =>
          /\ dpc = "Done"
          /\ derror = Undefined
          /\ launches = <<LaunchUrl(DownloadPath)>>
          /\ alerts \in {<<>>, <<FallbackMessage(DownloadPath)>>}
    /\ alerts # <<>> => InTrace("Notifying")
    /\ derror \in {Undefined, EmptyZipMessage, GenerateMessage, SaveMessage}
    /\ derror # Undefined <=> dpc = "Failed"
C16_Witness ==
    /\ dpc = "Done"
    /\ alerts = <<FallbackMessage(DownloadPath)>>
    /\ derror = Undefined

\* C17: a delivery that fails in serialization (generateAsync rejects) fails
\* with that error, and has neither saved a file nor notified; a delivery
\* never completes without its save.
C17_SerializationFailureStops ==
    /\ trace = <<"Idle", "Serializing", "Failed">> =>
          /\ derror = GenerateMessage
          /\ savedFiles = <<>>
          /\ launches = <<>>
          /\ alerts = <<>>
    /\ derror = GenerateMessage => trace = <<"Idle", "Serializing", "Failed">>
    /\ dpc = "Done" => InTrace("Saving") /\ Len(savedFiles) = 1
C17_Witness ==
    /\ trace = <<"Idle", "Serializing", "Failed">>
    /\ derror = GenerateMessage
    /\ Len(zipResults) = 2

LogOf(op) == SelectSeq(listenerLog, LAMBDA e : e.op = op)

\* C18: every setApiKey(value) leaves value as the credential and has called,
\* by the time it returns, each listener registered when it was called exactly
\* once (once per registration, in order), with true iff value is non-empty.
C18_SetNotifiesAll ==
    /\ \A k \in DOMAIN rounds :
          LET es == LogOf(rounds[k].op)
          IN /\ Len(es) = Len(rounds[k].listeners)
             /\ \A x \in DOMAIN es :
                   /\ es[x].listener = rounds[k].listeners[x]
                   /\ es[x].hasKey = (rounds[k].key # "")
    /\ rounds # <<>> => apiKey = rounds[Len(rounds)].key
C18_Witness ==
    \E k \in DOMAIN rounds :
        /\ rounds[k].listeners = <<"f", "g">>
        /\ rounds[k].key = ""
        /\ Len(LogOf(rounds[k].op)) = 2
        /\ k > 1
        /\ rounds[k - 1].key = "key-A"

\* C19: addApiKeyListener calls the listener exactly once before it returns,
\* with hasApiKey() of that moment, and returns the handle; every later
\* setApiKey that finds the listener registered calls it.
C19_SubscribeCallsOnce ==
    /\ \A k \in DOMAIN adds :
          /\ LogOf(adds[k].op) = <<[listener |-> adds[k].listener,
                                    hasKey |-> adds[k].hasKey,
                                    op |-> adds[k].op,
                                    registered |-> TRUE]>>
          /\ adds[k].listener \in handles
    /\ \A k \in DOMAIN rounds :
          \A x \in DOMAIN rounds[k].listeners :
              \E y \in DOMAIN listenerLog :
                  /\ listenerLog[y].op = rounds[k].op
                  /\ listenerLog[y].listener = rounds[k].listeners[x]
C19_Witness ==
    \E k \in DOMAIN adds, j \in DOMAIN rounds :
        /\ adds[k].hasKey
        /\ adds[k].listener = "g"
        /\ rounds[j].op > adds[k].op
        /\ rounds[j].listeners = <<"g">>
        /\ Len(LogOf(rounds[j].op)) = 1

\* C20: a listener is never called once its handle has been called: every
\* call finds the listener registered at that moment.
C20_NoCallAfterUnsubscribe ==
    \A x \in DOMAIN listenerLog : listenerLog[x].registered

\* ------------------------------------- credential lifetimes (SpecRestart)
Present(v) == v \notin {Undefined, Null, ""}
LastBoot == IF boots = <<>> THEN -1 ELSE boots[Len(boots)]
\* no setApiKey since the store was constructed
Fresh == \A k \in DOMAIN rounds : rounds[k].op < LastBoot
LastSetKey == rounds[Len(rounds)].key

\* C21: a store just constructed holds the build-time value when present,
\* otherwise the persisted value when present, otherwise no credential.
C21_LoadOrder ==
    Fresh =>
        /\ Present(envApiKey) => apiKey = envApiKey
        /\ (~Present(envApiKey) /\ Present(localStorage)) => apiKey = localStorage
        /\ (~Present(envApiKey) /\ ~Present(localStorage)) => apiKey = Null
C21_Witness ==
    /\ Fresh
    /\ boots # <<>>
    /\ envApiKey = "key-E"
    /\ localStorage = "key-A"
    /\ apiKey = "key-E"

\* C26 as stated: after setApiKey(v), v non-empty, and a restart, the
\* credential is v.
C26_SetSurvivesRestart ==
    (Fresh /\ rounds # <<>> /\ LastSetKey # "") => apiKey = LastSetKey

\* C26 amended: after setApiKey(v), v non-empty, and a restart, the credential
\* is v when no build-time value is configured; v is the persisted value in
\* every case.
C26_SetSurvivesRestartWithoutEnv ==
    (Fresh /\ rounds # <<>> /\ LastSetKey # "") =>
        /\ localStorage = LastSetKey
        /\ ~Present(envApiKey) => apiKey = LastSetKey
C26_Witness ==
    /\ Fresh
    /\ rounds # <<>>
    /\ LastSetKey = "key-A"
    /\ envApiKey = ""
    /\ apiKey = "key-A"
    /\ Len(boots) = 2

\* ------------------------------------------ handles (SpecStore, continued)
Registrations(fn) == Len(SelectSeq(apiKeyListeners, LAMBDA l : l = fn))
AddsOf(fn) == SelectSeq(adds, LAMBDA a : a.listener = fn)
UnsubsOf(fn) == SelectSeq(unsubs, LAMBDA u : u.listener = fn)
NoHandleInCallbacks == \A fn \in ListenerFns : onNotify[fn] = None

\* C27: when a listener function was registered twice and then one handle of
\* it was called once, the other registration stands: the function is
\* registered once, and every later setApiKey calls it once.
C27_HandlesIndependent ==
    \A fn \in ListenerFns :
        (/\ NoHandleInCallbacks
         /\ Len(AddsOf(fn)) = 2
         /\ Len(UnsubsOf(fn)) = 1
         /\ UnsubsOf(fn)[1].op > AddsOf(fn)[2].op) =>
            /\ Registrations(fn) = 1
            /\ \A k \in DOMAIN rounds :
                  rounds[k].op > UnsubsOf(fn)[1].op =>
                      Len(SelectSeq(LogOf(rounds[k].op), LAMBDA e : e.listener = fn)) = 1

\* --------------------------------------- credential during a run (Spec)
\* C22: a dispatched call keeps the credential it was dispatched with whatever
\* setApiKey does afterwards, a call dispatched later carries the credential
\* of that moment, and a finished run has one result per item.
C22_InFlightKeepKey ==
    /\ [][/\ \A c \in DOMAIN calls :
                /\ c \in DOMAIN calls'
                /\ calls'[c].fetched = calls[c].fetched
                /\ calls'[c].key = calls[c].key
          /\ \A c \in DOMAIN calls' \ DOMAIN calls :
                calls'[c].fetched => (calls'[c].key = apiKey /\ apiKey' = apiKey)]_vars
    /\ [](pc = "done" => Len(results) = NumItems)
C22_Witness ==
    /\ pc = "await"
    /\ apiKey = ""
    /\ Len(results) > 0
    /\ \E c \in DOMAIN calls : calls[c].resp = "inflight" /\ calls[c].key = "key-A"
    /\ keyAtRun = Null

\* C24: at every moment of a run the calls dispatched and not yet settled are
\* at most concurrencyLimit.
InFlight == {c \in DOMAIN calls : calls[c].fetched /\ calls[c].resp = "inflight"}
C24_InFlightBounded == Cardinality(InFlight) <= concurrencyLimit
C24_Witness ==
    /\ pc = "await"
    /\ concurrencyLimit = 2
    /\ Cardinality(InFlight) = 2
    /\ Len(results) = 2
    /\ NumItems = 4

\* ------------------------------------------ any concurrencyLimit (SpecLimit)
\* C25: a run returns for every integer concurrencyLimit, 0 and negative
\* values included: every iteration that follows a pause moves the loop index
\* forward, so a run over n items has at most n iterations.
C25_IndexAdvances ==
    /\ [][(pc = "pause" /\ batchLog' # batchLog) => i' > i]_vars
    /\ [](Len(batchLog) <= NumItems)

\* ------------------------------------------------- the prompt (SpecPrompt)
\* the template with every placeholder replaced by the label, as it stands
RECURSIVE Substituted(_, _)
Substituted(template, expression) ==
    IF template = <<>> THEN <<>>
    ELSE (IF Head(template) = Placeholder THEN expression ELSE <<Head(template)>>)
             \o Substituted(Tail(template), expression)

\* C23: for every template the caller supplies (the empty one and one with
\* several placeholders included) the prompt is the template with the
\* placeholder replaced by the item's label.
C23_PromptIsTemplateWithLabel ==
    (prompt # NotBuilt /\ customPrompt # NoTemplate) =>
        prompt = Substituted(customPrompt, promptExpression)

\* a step that is an invocation of generateFacecasts
Invoked == clicks' # clicks

\* some early return of generateFacecasts applies
Blocked == referenceImage = "" \/ ~hasApiKey \/ selectedExpressions = <<>>

\* C29: when the reference image is missing, no key is present or no
\* expression is selected, generateFacecasts starts no batch, leaves
\* isGenerating and the results as they are and only sets the error message:
\* that of the first failing check, in the order image, key, expressions
C29_GuardsOnlySetError ==
    [][(Invoked /\ Blocked) =>
          /\ UNCHANGED <<isGenerating, uiResults, upc, awaited>>
          /\ uiError' = IF referenceImage = "" THEN NoImageMessage
                        ELSE IF ~hasApiKey THEN NoKeyUiMessage
                        ELSE NoSelectionMessage]_vars

\* an invocation stopped by the key check, with no expression selected either,
\* while the results of an earlier run are displayed
C29_Witness ==
    /\ clicks = 2
    /\ uiError = NoKeyUiMessage
    /\ selectedExpressions = <<>>
    /\ uiResults # <<>>
    /\ ~isGenerating

C28_GeneratingEnds ==
    /\ [][(upc = "awaiting" /\ upc' = "idle") =>
             /\ isGenerating /\ ~isGenerating'
             /\ lastOutcome' = "returned" =>
                   uiResults' = lastReturned' /\ Len(uiResults') = Len(awaited)
             /\ lastOutcome' = "threw" =>
                   uiError' = BatchErrorMessage /\ uiResults' = <<>>]_vars
    /\ isGenerating ~> ~isGenerating

\* one run returned its results, the next one threw
C28_Witness ==
    /\ clicks = 2
    /\ lastOutcome = "threw"
    /\ lastReturned # <<>>
    /\ uiError = BatchErrorMessage
    /\ uiResults = <<>>
    /\ ~isGenerating

====
